---- MODULE Spec2Model ----
(***************************************************************************)
(* A model of pdfrenamer (src/app.py).                                     *)
(*                                                                         *)
(*   Spec      extract_table_data: one call, from fitz.open to the return, *)
(*             page by page, anchor by anchor, fragment by fragment.       *)
(*   SpecMain  the batch loop of main: one file after the other, the       *)
(*             naming transform, the collision loop and the archive.       *)
(*                                                                         *)
(* Coordinates are floats in the program.  The model stores TWICE the      *)
(* coordinate in an integer (x and y are in half units), so that the ties  *)
(* of Python's round (y / 5 = k + 0.5) exist in the model.  A threshold of *)
(* 5 units of the source is therefore 2 * 5 half units here.               *)
(***************************************************************************)
EXTENDS Integers, Sequences, FiniteSets, TLC

\* ------------------------------------------------------------------------
\* Program constants
\* ------------------------------------------------------------------------

\* round(c['y'] / 5): the height of a sorting band (app.py:37)
BandSize == 5

\* abs(next_cell['y'] - current_y) < 5 (app.py:48)
Tolerance == 5

\* next_cell['y'] > current_y + 10 (app.py:50)
LineGap == 10

\* len(row_cells) >= 9, row_cells[:9] (app.py:54, 56)
RowLen == 9

\* cell['text'] == 'KCZ' (app.py:41)
Anchor == "KCZ"

\* Python's None (app.py:59, 63)
None == <<>>

\* ------------------------------------------------------------------------
\* Bounds of the model
\* ------------------------------------------------------------------------

\* pages of a document
MaxPages == 2

\* text lines the parser reports for one page
MaxLines == 2

\* files uploaded in one batch
MaxFiles == 4

\* ------------------------------------------------------------------------
\* The parser's output for one page (page.get_text("dict"), app.py:18-34)
\* ------------------------------------------------------------------------

\* Heights of text lines, in half units: 7.0, 7.5, 8.0, 12.5 and 18.0.
\* 7.5 / 5 and 12.5 / 5 are ties of round; 7.0 and 7.5 are 0.5 apart and in
\* different bands; 7.5 and 12.5 are 5 apart and in the same band; 8.0 and
\* 18.0 are exactly 10 apart; 7.5 and 18.0 are more than 10 apart.
LineYs == {14, 15, 16, 25, 36}

\* Spans of one text line: a lone span, or a line long enough for a row.
SpanCounts == {1, RowLen}

\* The texts of the spans that are not the anchor, by position in the line.
Tokens == <<"DMX", "O", "03", "TL", "PR", "004", "R", "14", "EXTRA">>

\* A text line of a page as the parser reports it: n spans at height y;
\* anchor: the line starts with the anchor text.  The k-th span (from 1) of a
\* line with the anchor is at x = 2 * (k - 1), of a line without it at
\* x = 2 * (k - 1) + 1: the spans of two lines of the two kinds interleave,
\* those of two lines of one kind share their x.
TextLines == [y : LineYs, n : SpanCounts, anchor : BOOLEAN]

PageLayouts == UNION {[1..m -> TextLines] : m \in 0..MaxLines}

\* The cells of one line: lines 23-34 for one line (every span of the model
\* has a non-empty stripped text and a bbox, so every span gives a cell).
LineCells(l) ==
    [k \in 1..l.n |->
        [text |-> IF l.anchor
                  THEN (IF k = 1 THEN Anchor ELSE Tokens[k - 1])
                  ELSE Tokens[k],
         x |-> 2 * (k - 1) + (IF l.anchor THEN 0 ELSE 1),
         y |-> l.y]]

\* potential_cells in parse order: the loops of lines 21-34 over the blocks.
RECURSIVE ParseCells(_)
ParseCells(layout) ==
    IF layout = <<>> THEN <<>>
    ELSE ParseCells(SubSeq(layout, 1, Len(layout) - 1))
             \o LineCells(layout[Len(layout)])

\* ------------------------------------------------------------------------
\* The sort of line 37
\* ------------------------------------------------------------------------

\* Python 3's round(y / d) of y given in half units: to the nearest integer,
\* a tie to the even one.
Round(y2, d) ==
    LET q == y2 \div (2 * d)
        r == y2 % (2 * d)
    IN  IF r < d THEN q
        ELSE IF r > d THEN q + 1
        ELSE IF q % 2 = 0 THEN q ELSE q + 1

\* round(c['y'] / 5): the first component of the sort key.
Band(c) == Round(c.y, BandSize)

\* A mutant of KeyLess: the sort by x alone.
KeyLessByX(a, b) == a.x < b.x

\* (round(a.y / 5), a.x) < (round(b.y / 5), b.x), as Python orders tuples.
KeyLess(a, b) ==
    \/ Band(a) < Band(b)
    \/ Band(a) = Band(b) /\ a.x < b.x

\* c put into the sorted s after every element whose key is not greater.
Insert(s, c) ==
    LET p == Cardinality({m \in 1..Len(s) : ~KeyLess(c, s[m])})
    IN  SubSeq(s, 1, p) \o <<c>> \o SubSeq(s, p + 1, Len(s))

\* list.sort(key=...): stable, ascending.
RECURSIVE SortCells(_)
SortCells(s) ==
    IF s = <<>> THEN <<>>
    ELSE Insert(SortCells(SubSeq(s, 1, Len(s) - 1)), s[Len(s)])

Abs(n) == IF n < 0 THEN -n ELSE n

\* ------------------------------------------------------------------------
\* State
\* ------------------------------------------------------------------------

VARIABLES
    pc,               \* where extract_table_data is
    doc,              \* the document handle: "none", "open" or "closed"
    numPages,         \* len(doc)
    page,             \* pages the for loop of line 17 has read
    potential_cells,  \* the current page's cells, sorted (line 37)
    i,                \* the index of the loop of line 40 (from 1; 0: before)
    j,                \* the index of the loop of line 46
    current_y,        \* line 43
    row_cells,        \* lines 42, 49
    ret,              \* the returned value
    exit,             \* the return taken: "row" (56), "none" (59), "except" (63)
    errors,           \* calls of st.error (line 62)
    verdicts,         \* history: PageVerdict of each page entered
    mpc,              \* where main is
    numFiles,         \* len(uploaded_files)
    file,             \* files the loop of line 104 has finished
    base_name,        \* line 116
    new_name,         \* line 117
    counter,          \* line 120
    final_new_name,   \* lines 121, 123
    generated_new_names,  \* line 102
    zip_names,        \* the names written into zip_archive, in order
    results,          \* the Status column of results
    success_count,
    fail_count,
    zip_closed        \* line 161

evars == <<pc, doc, numPages, page, potential_cells, i, j, current_y,
           row_cells, ret, exit, errors, verdicts>>

mvars == <<mpc, numFiles, file, base_name, new_name, counter, final_new_name,
           generated_new_names, zip_names, results, success_count, fail_count,
           zip_closed>>

vars == <<evars, mvars>>

\* ------------------------------------------------------------------------
\* extract_table_data
\* ------------------------------------------------------------------------

\* The fragments after position a of the sorted cells that lie within the
\* tolerance of the fragment at a.
InTolerance(cells, a) ==
    {m \in (a + 1)..Len(cells) :
        Abs(cells[m].y - cells[a].y) < 2 * Tolerance}

\* The positions of the sorted cells that hold the anchor text.
Anchors(cells) == {a \in 1..Len(cells) : cells[a].text = Anchor}

\* A page qualifies: some anchor has RowLen - 1 later fragments in tolerance.
Qualifies(cells) ==
    \E a \in Anchors(cells) : Cardinality(InTolerance(cells, a)) >= RowLen - 1

\* What a page holds: "full" (it qualifies), "short" (an anchor, but none
\* with enough fragments in tolerance after it) or "absent" (no anchor).
PageVerdict(cells) ==
    IF Qualifies(cells) THEN "full"
    ELSE IF Anchors(cells) # {} THEN "short"
    ELSE "absent"

\* A mutant of PagesLeft: the search ends with the first page.
PagesLeftFirstOnly(p, n) == p = 0 /\ n > 0

\* Line 17: the for loop has a next page.
PagesLeft(p, n) == p < n

InitExtract ==
    /\ pc = "start"
    /\ doc = "none"
    /\ numPages = 0
    /\ page = 0
    /\ potential_cells = <<>>
    /\ i = 0
    /\ j = 0
    /\ current_y = 0
    /\ row_cells = <<>>
    /\ ret = None
    /\ exit = ""
    /\ errors = 0
    /\ verdicts = <<>>

\* Line 15: fitz.open succeeds on a document of n pages.
OpenOk ==
    /\ pc = "start"
    /\ \E n \in 0..MaxPages : numPages' = n
    /\ doc' = "open"
    /\ pc' = "pages"
    /\ UNCHANGED mvars
    /\ UNCHANGED <<page, potential_cells, i, j, current_y, row_cells, ret,
                   exit, errors, verdicts>>

\* Line 15: fitz.open raises (the bytes are no document).
OpenFails ==
    /\ pc = "start"
    /\ pc' = "except"
    /\ UNCHANGED mvars
    /\ UNCHANGED <<doc, numPages, page, potential_cells, i, j, current_y,
                   row_cells, ret, exit, errors, verdicts>>

\* Lines 18-37 for one page: the cells in parse order, then sorted.
SortedCells(layout) == SortCells(ParseCells(layout))

\* Every list of sorted cells a page of the model can give.
SortedPages == {SortedCells(layout) : layout \in PageLayouts}

\* Lines 17-37: the for loop enters the next page, reads its fragments and
\* sorts them; the loop of line 40 starts.
ReadPage ==
    /\ pc = "pages"
    /\ PagesLeft(page, numPages)
    /\ \E cells \in SortedPages :
          /\ potential_cells' = cells
          /\ verdicts' = Append(verdicts, PageVerdict(cells))
    /\ page' = page + 1
    /\ i' = 0
    /\ pc' = "scan"
    /\ UNCHANGED mvars
    /\ UNCHANGED <<doc, numPages, j, current_y, row_cells, ret, exit, errors>>

\* Lines 17-18: loading the page or reading its text raises (an encrypted
\* document, a damaged page).
ReadPageFails ==
    /\ pc = "pages"
    /\ PagesLeft(page, numPages)
    /\ pc' = "except"
    /\ UNCHANGED mvars
    /\ UNCHANGED <<doc, numPages, page, potential_cells, i, j, current_y,
                   row_cells, ret, exit, errors, verdicts>>

\* Lines 40-41: the next cell is not the anchor.
ScanSkip ==
    /\ pc = "scan"
    /\ i < Len(potential_cells)
    /\ potential_cells[i + 1].text # Anchor
    /\ i' = i + 1
    /\ UNCHANGED mvars
    /\ UNCHANGED <<pc, doc, numPages, page, potential_cells, j, current_y,
                   row_cells, ret, exit, errors, verdicts>>

\* Lines 40-43: the next cell is the anchor; the walk of line 46 starts.
ScanAnchor ==
    /\ pc = "scan"
    /\ i < Len(potential_cells)
    /\ potential_cells[i + 1].text = Anchor
    /\ i' = i + 1
    /\ row_cells' = <<potential_cells[i + 1].text>>
    /\ current_y' = potential_cells[i + 1].y
    /\ j' = i + 2
    /\ pc' = "walk"
    /\ UNCHANGED mvars
    /\ UNCHANGED <<doc, numPages, page, potential_cells, ret, exit, errors,
                   verdicts>>

\* Line 40 ends: the page gave no row; back to the for loop of line 17.
\* The page's locals are dead from here on (line 19 and lines 42-43 assign
\* them anew before any read); the model clears them.
ScanEnd ==
    /\ pc = "scan"
    /\ i = Len(potential_cells)
    /\ pc' = "pages"
    /\ potential_cells' = <<>>
    /\ i' = 0
    /\ j' = 0
    /\ current_y' = 0
    /\ row_cells' = <<>>
    /\ UNCHANGED mvars
    /\ UNCHANGED <<doc, numPages, page, ret, exit, errors, verdicts>>

\* Line 48: the test that appends next_cell.
SameLine(next_cell, y0) == Abs(next_cell.y - y0) < 2 * Tolerance

\* A mutant of NextLine: the test on both sides, and from the tolerance on.
NextLineFromTolerance(next_cell, y0) == Abs(next_cell.y - y0) >= 2 * Tolerance

\* Line 50: the test that ends the walk.
NextLine(next_cell, y0) == next_cell.y > y0 + 2 * LineGap

\* Lines 46-49: next_cell is on the anchor's line and is appended.
WalkAppend ==
    /\ pc = "walk"
    /\ j <= Len(potential_cells)
    /\ SameLine(potential_cells[j], current_y)
    /\ row_cells' = Append(row_cells, potential_cells[j].text)
    /\ j' = j + 1
    /\ UNCHANGED mvars
    /\ UNCHANGED <<pc, doc, numPages, page, potential_cells, i, current_y,
                   ret, exit, errors, verdicts>>

\* Lines 46-50: next_cell passes neither test; the walk goes on.
WalkSkip ==
    /\ pc = "walk"
    /\ j <= Len(potential_cells)
    /\ ~SameLine(potential_cells[j], current_y)
    /\ ~NextLine(potential_cells[j], current_y)
    /\ j' = j + 1
    /\ UNCHANGED mvars
    /\ UNCHANGED <<pc, doc, numPages, page, potential_cells, i, current_y,
                   row_cells, ret, exit, errors, verdicts>>

\* Lines 50-51: next_cell is on a later line: break.
WalkBreak ==
    /\ pc = "walk"
    /\ j <= Len(potential_cells)
    /\ ~SameLine(potential_cells[j], current_y)
    /\ NextLine(potential_cells[j], current_y)
    /\ pc' = "rowcheck"
    /\ UNCHANGED mvars
    /\ UNCHANGED <<doc, numPages, page, potential_cells, i, j, current_y,
                   row_cells, ret, exit, errors, verdicts>>

\* Line 46: the range is exhausted.
WalkEnd ==
    /\ pc = "walk"
    /\ j > Len(potential_cells)
    /\ pc' = "rowcheck"
    /\ UNCHANGED mvars
    /\ UNCHANGED <<doc, numPages, page, potential_cells, i, j, current_y,
                   row_cells, ret, exit, errors, verdicts>>

\* Line 54: len(row_cells) >= 9.
FullRow(row) == Len(row) >= RowLen

\* A mutant of Returned: the row is returned whole.
ReturnedWhole(row) == row

\* Line 56: row_cells[:9].
Returned(row) == SubSeq(row, 1, IF Len(row) < RowLen THEN Len(row) ELSE RowLen)

\* Lines 54-56: the row is full; the document is closed and the row returned.
ReturnRow ==
    /\ pc = "rowcheck"
    /\ FullRow(row_cells)
    /\ doc' = "closed"
    /\ ret' = Returned(row_cells)
    /\ exit' = "row"
    /\ pc' = "done"
    /\ UNCHANGED mvars
    /\ UNCHANGED <<numPages, page, potential_cells, i, j, current_y,
                   row_cells, errors, verdicts>>

\* A mutant of AfterShortRow: the page is given up after a short row.
AfterShortRowGiveUp == "pages"

\* Line 54 fails: the loop of line 40 goes on with the cell after the anchor.
AfterShortRow == "scan"

\* Line 54: the row is short.
RowShort ==
    /\ pc = "rowcheck"
    /\ ~FullRow(row_cells)
    /\ pc' = AfterShortRow
    /\ UNCHANGED mvars
    /\ UNCHANGED <<doc, numPages, page, potential_cells, i, j, current_y,
                   row_cells, ret, exit, errors, verdicts>>

\* Lines 58-59: the for loop of line 17 is over; close and return None.
ReturnNone ==
    /\ pc = "pages"
    /\ ~PagesLeft(page, numPages)
    /\ doc' = "closed"
    /\ ret' = None
    /\ exit' = "none"
    /\ pc' = "done"
    /\ UNCHANGED mvars
    /\ UNCHANGED <<numPages, page, potential_cells, i, j, current_y,
                   row_cells, errors, verdicts>>

\* A mutant of Reported: the handler reports nothing.
ReportedNothing(n) == n

\* Line 62: st.error is called once.
Reported(n) == n + 1

\* Lines 61-63: the handler reports the error and returns None; the
\* document is not closed here.
Except ==
    /\ pc = "except"
    /\ errors' = Reported(errors)
    /\ ret' = None
    /\ exit' = "except"
    /\ pc' = "done"
    /\ UNCHANGED mvars
    /\ UNCHANGED <<doc, numPages, page, potential_cells, i, j, current_y,
                   row_cells, verdicts>>

NextExtract ==
    \/ OpenOk
    \/ OpenFails
    \/ ReadPage
    \/ ReadPageFails
    \/ ScanSkip
    \/ ScanAnchor
    \/ ScanEnd
    \/ WalkAppend
    \/ WalkSkip
    \/ WalkBreak
    \/ WalkEnd
    \/ ReturnRow
    \/ RowShort
    \/ ReturnNone
    \/ Except

\* ------------------------------------------------------------------------
\* main: the batch loop (lines 90-167)
\* ------------------------------------------------------------------------

\* Names are sequences of characters.

\* The class [<>:"/\\|?*] of line 117.
ForbiddenChars == {"<", ">", ":", "\"", "/", "\\", "|", "?", "*"}

Pdf == <<".", "p", "d", "f">>

Digits == <<"0", "1", "2", "3", "4", "5", "6", "7", "8", "9">>

\* str(n) of an f-string, n >= 0.
RECURSIVE Decimal(_)
Decimal(n) ==
    IF n < 10 THEN <<Digits[n + 1]>>
    ELSE Decimal(n \div 10) \o <<Digits[(n % 10) + 1]>>

\* '_'.join(tokens)
RECURSIVE Join(_)
Join(tokens) ==
    IF tokens = <<>> THEN <<>>
    ELSE IF Len(tokens) = 1 THEN tokens[1]
    ELSE Join(SubSeq(tokens, 1, Len(tokens) - 1)) \o <<"_">> \o tokens[Len(tokens)]

\* re.sub(r'[<>:"/\\|?*]', '_', name)
Sanitize(name) ==
    [k \in 1..Len(name) |-> IF name[k] \in ForbiddenChars THEN "_" ELSE name[k]]

\* The first eight tokens of the rows of the model.
RowPrefix ==
    << <<"K", "C", "Z">>, <<"D", "M", "X">>, <<"O">>, <<"0", "3">>,
       <<"T", "L">>, <<"P", "R">>, <<"0", "0", "4">>, <<"R">> >>

\* The ninth token: plain; the plain one followed by _1; two that differ
\* only in a forbidden character; and the text these two are sanitized to.
LastTokens ==
    { <<"1", "4">>, <<"1", "4", "_", "1">>, <<"1", "/", "4">>,
      <<"1", ":", "4">>, <<"1", "_", "4">> }

\* The rows extract_table_data returns for the files of the model.
TableRows == {Append(RowPrefix, t) : t \in LastTokens}

\* Line 116: '_'.join(table_data[:9])
BaseName(table_data) ==
    Join(SubSeq(table_data, 1,
                IF Len(table_data) < RowLen THEN Len(table_data) ELSE RowLen))

\* Line 117: the sanitized base name with the extension.
NewName(base) == Sanitize(base) \o Pdf

\* Line 123: f"{base_name}_{counter}.pdf"
Renamed(base, c) == base \o <<"_">> \o Decimal(c) \o Pdf

\* A mutant of Collides: an if in place of the while of line 122.
CollidesOnce(name, names, c) == c = 1 /\ name \in names

\* Line 122: final_new_name in generated_new_names (c: the counter).
Collides(name, names, c) == name \in names

InitExtractIdle ==
    /\ pc = "idle"
    /\ doc = "none"
    /\ numPages = 0
    /\ page = 0
    /\ potential_cells = <<>>
    /\ i = 0
    /\ j = 0
    /\ current_y = 0
    /\ row_cells = <<>>
    /\ ret = None
    /\ exit = ""
    /\ errors = 0
    /\ verdicts = <<>>

InitMainIdle ==
    /\ mpc = "idle"
    /\ numFiles = 0
    /\ file = 0
    /\ base_name = <<>>
    /\ new_name = <<>>
    /\ counter = 0
    /\ final_new_name = <<>>
    /\ generated_new_names = {}
    /\ zip_names = <<>>
    /\ results = <<>>
    /\ success_count = 0
    /\ fail_count = 0
    /\ zip_closed = FALSE

\* Lines 84-102: files are uploaded, the button is pressed, the loop starts.
InitMain ==
    /\ mpc = "loop"
    /\ numFiles \in 1..MaxFiles
    /\ file = 0
    /\ base_name = <<>>
    /\ new_name = <<>>
    /\ counter = 0
    /\ final_new_name = <<>>
    /\ generated_new_names = {}
    /\ zip_names = <<>>
    /\ results = <<>>
    /\ success_count = 0
    /\ fail_count = 0
    /\ zip_closed = FALSE

\* Lines 104-121: the next file gave a row; its names are computed.
FileExtracted ==
    /\ mpc = "loop"
    /\ file < numFiles
    /\ \E table_data \in TableRows :
          /\ table_data # None /\ Len(table_data) >= RowLen
          /\ base_name' = BaseName(table_data)
          /\ new_name' = NewName(BaseName(table_data))
          /\ final_new_name' = NewName(BaseName(table_data))
    /\ counter' = 1
    /\ mpc' = "dedupe"
    /\ UNCHANGED evars
    /\ UNCHANGED <<numFiles, file, generated_new_names, zip_names, results,
                   success_count, fail_count, zip_closed>>

\* Lines 104-114, 136-145: extract_table_data returned None for the next file.
FileFailed ==
    /\ mpc = "loop"
    /\ file < numFiles
    /\ results' = Append(results, "Failed")
    /\ fail_count' = fail_count + 1
    /\ file' = file + 1
    /\ UNCHANGED evars
    /\ UNCHANGED <<mpc, numFiles, base_name, new_name, counter, final_new_name,
                   generated_new_names, zip_names, success_count, zip_closed>>

\* Lines 122-124: the name is taken; the next candidate.
Dedupe ==
    /\ mpc = "dedupe"
    /\ Collides(final_new_name, generated_new_names, counter)
    /\ final_new_name' = Renamed(base_name, counter)
    /\ counter' = counter + 1
    /\ UNCHANGED evars
    /\ UNCHANGED <<mpc, numFiles, file, base_name, new_name,
                   generated_new_names, zip_names, results, success_count,
                   fail_count, zip_closed>>

\* Lines 125-135, 145: the name is free; it is recorded, the file is written
\* under it and the result is noted.
WriteFile ==
    /\ mpc = "dedupe"
    /\ ~Collides(final_new_name, generated_new_names, counter)
    /\ generated_new_names' = generated_new_names \cup {final_new_name}
    /\ zip_names' = Append(zip_names, final_new_name)
    /\ results' = Append(results, "Success")
    /\ success_count' = success_count + 1
    /\ file' = file + 1
    /\ mpc' = "loop"
    /\ UNCHANGED evars
    /\ UNCHANGED <<numFiles, base_name, new_name, counter, final_new_name,
                   fail_count, zip_closed>>

\* Lines 147-167: the loop is over; the archive is closed and offered when a
\* file was written.
Finish ==
    /\ mpc = "loop"
    /\ file = numFiles
    /\ zip_closed' = (success_count > 0)
    /\ mpc' = "done"
    /\ UNCHANGED evars
    /\ UNCHANGED <<numFiles, file, base_name, new_name, counter,
                   final_new_name, generated_new_names, zip_names, results,
                   success_count, fail_count>>

NextMain ==
    \/ FileExtracted
    \/ FileFailed
    \/ Dedupe
    \/ WriteFile
    \/ Finish

Init == InitExtract /\ InitMainIdle

Next == NextExtract

Spec == Init /\ [][Next]_vars

MainInit == InitMain /\ InitExtractIdle

SpecMain == MainInit /\ [][NextMain]_vars

\* ------------------------------------------------------------------------
\* Claims about extract_table_data (checked under Spec)
\* ------------------------------------------------------------------------

\* The loop of line 40 has run through the page without returning a row.
Exhausted == pc = "scan" /\ i = Len(potential_cells)

\* The texts of the cells at the positions of set S, in the order of cells.
TextsAt(cells, S) ==
    LET picked == SelectSeq([m \in 1..Len(cells) |-> m], LAMBDA m : m \in S)
    IN  [k \in 1..Len(picked) |-> cells[picked[k]].text]

\* The fragments of the page to the right of the one at a and within the
\* tolerance of it, wherever the sort has put them.
RightOf(cells, a) ==
    {m \in 1..Len(cells) :
        /\ cells[m].x > cells[a].x
        /\ Abs(cells[m].y - cells[a].y) < 2 * Tolerance}

\* The k-th of the positions S from the left (no two of S share their x).
KthFromLeft(cells, S, k) ==
    CHOOSE m \in S : Cardinality({n \in S : cells[n].x < cells[m].x}) = k - 1

\* C1 as stated: a page with a KCZ fragment and at least 8 fragments to its
\* right within the tolerance makes extract_table_data return KCZ followed by
\* the 8 leftmost of them in ascending x.  Stated for a page with one KCZ
\* fragment and no two fragments to its right at the same x, where the
\* expected row is unique: the page is not left without a row, and the row
\* returned from it is that one.
C1_RowLeftToRight ==
    \A a \in Anchors(potential_cells) :
        LET right == RightOf(potential_cells, a)
        IN  ( /\ Anchors(potential_cells) = {a}
              /\ Cardinality(right) >= RowLen - 1
              /\ \A m, n \in right :
                     m # n => potential_cells[m].x # potential_cells[n].x )
            => /\ ~Exhausted
               /\ exit = "row" =>
                     ret = <<Anchor>> \o
                           [k \in 1..(RowLen - 1) |->
                               potential_cells[
                                   KthFromLeft(potential_cells, right, k)].text]

\* C2: a returned row has exactly 9 elements and starts with KCZ.
C2_RowShape ==
    ret # None => Len(ret) = RowLen /\ ret[1] = Anchor

\* C2's case: a row is returned from more than 9 collected elements.
C2_Witness ==
    pc = "done" /\ exit = "row" /\ Len(row_cells) > RowLen

\* C3: the pages are read in order and the first qualifying page decides:
\* a row is returned from the lowest-numbered qualifying page and no page
\* after it is read; a page with a short anchor line does not end the
\* search; None is returned by line 59 only when every page was read and
\* none qualified (also for no pages at all).
C3_FirstPageWins ==
    /\ Len(verdicts) = page
    /\ page <= numPages
    /\ \A k \in 1..(page - 1) : verdicts[k] # "full"
    /\ exit = "row" => verdicts[page] = "full"
    /\ exit = "none" =>
          /\ page = numPages
          /\ \A k \in 1..page : verdicts[k] # "full"

\* C3's case: a row is returned from the second page after a first page
\* whose anchor line was too short.
C3_Witness ==
    pc = "done" /\ exit = "row" /\ page = 2 /\ verdicts[1] = "short"

\* C4: in the walk, a fragment 5 to 10 away from the anchor's y is not
\* appended and does not end the walk, a fragment more than 10 away ends
\* the walk and is not appended, a fragment less than 5 away is appended.
C4_WalkStep ==
    [][ (pc = "walk" /\ j <= Len(potential_cells)) =>
          LET d == Abs(potential_cells[j].y - current_y)
          IN  /\ (d >= 2 * Tolerance /\ d <= 2 * LineGap) =>
                    (row_cells' = row_cells /\ pc' = "walk" /\ j' = j + 1)
              /\ d > 2 * LineGap =>
                    (row_cells' = row_cells /\ pc' = "rowcheck")
              /\ d < 2 * Tolerance =>
                    /\ row_cells' = Append(row_cells, potential_cells[j].text)
                    /\ pc' = "walk" /\ j' = j + 1 ]_vars

\* C4's case: the walk has passed a fragment 5 to 10 away and appended a
\* fragment after it.
C4_Witness ==
    /\ pc = "walk"
    /\ \E m, n \in (i + 1)..(j - 1) :
          /\ m < n
          /\ Abs(potential_cells[m].y - current_y) >= 2 * Tolerance
          /\ Abs(potential_cells[m].y - current_y) <= 2 * LineGap
          /\ Abs(potential_cells[n].y - current_y) < 2 * Tolerance

\* C5 as stated: a parse failure never returns the value that the
\* not-found outcome returns (None).
C5_FailureDistinctFromNotFound ==
    (pc = "done" /\ exit = "except") => ret # None

\* C5 amended: the parse failure and the not-found outcome both return None;
\* they differ in the report only: st.error is called once on the failure
\* and never on the not-found outcome.
C5_SameValueReportDiffers ==
    /\ exit = "except" => (ret = None /\ errors = 1)
    /\ exit = "none" => (ret = None /\ errors = 0)
    /\ exit = "row" => (ret # None /\ errors = 0)

\* C5's case: fitz.open failed and the function has returned.
C5_Witness ==
    pc = "done" /\ exit = "except" /\ doc = "none"

\* C6 as stated: an opened document is closed when the function has exited.
C6_ClosedOnExit ==
    (pc = "done" /\ doc # "none") => doc = "closed"

\* C9 as stated: a row is only ever built from the first KCZ fragment of the
\* sorted page.
C9_FirstAnchorOnly ==
    exit = "row" => \A a \in Anchors(potential_cells) : i <= a

\* C9 amended: the KCZ fragments of the sorted page are tried in order and
\* the first with at least 8 later fragments in tolerance gives the row; the
\* page is left without a row only when no KCZ fragment has that many.
C9_FirstFullAnchor ==
    /\ exit = "row" =>
          /\ i \in Anchors(potential_cells)
          /\ Cardinality(InTolerance(potential_cells, i)) >= RowLen - 1
          /\ \A a \in Anchors(potential_cells) :
                 a < i =>
                   Cardinality(InTolerance(potential_cells, a)) < RowLen - 1
          /\ ret = SubSeq(<<Anchor>> \o
                          TextsAt(potential_cells,
                                  InTolerance(potential_cells, i)),
                          1, RowLen)
    /\ Exhausted => ~Qualifies(potential_cells)
    /\ (pc = "pages" /\ page >= 1) => verdicts[page] # "full"

\* C9's case: a row is returned from a KCZ fragment that is not the first.
C9_Witness ==
    /\ pc = "done" /\ exit = "row"
    /\ \E a \in Anchors(potential_cells) : a < i

\* C10: after the anchor in the sorted order no fragment is more than 10
\* above it; after a fragment more than 10 below it none is within the
\* tolerance; so the collected row is the anchor followed by every later
\* fragment within the tolerance.
C10_BreakLosesNothing ==
    pc \in {"walk", "rowcheck"} =>
        /\ \A m \in (i + 1)..Len(potential_cells) :
               potential_cells[m].y >= current_y - 2 * LineGap
        /\ \A m \in (i + 1)..Len(potential_cells) :
               potential_cells[m].y > current_y + 2 * LineGap =>
                 \A n \in (m + 1)..Len(potential_cells) :
                     Abs(potential_cells[n].y - current_y) >= 2 * Tolerance
        /\ pc = "rowcheck" =>
               row_cells = <<Anchor>> \o
                           TextsAt(potential_cells,
                                   InTolerance(potential_cells, i))

\* C10's case: the walk was ended by the break of line 51 after fragments
\* were appended.
C10_Witness ==
    /\ pc = "rowcheck"
    /\ j <= Len(potential_cells)
    /\ Len(row_cells) > 1

\* ------------------------------------------------------------------------
\* Claims about main (checked under SpecMain)
\* ------------------------------------------------------------------------

\* C7 as stated: no name written into the archive holds a forbidden
\* character.
C7_NamesSanitized ==
    \A k \in 1..Len(zip_names) :
        \A c \in 1..Len(zip_names[k]) : zip_names[k][c] \notin ForbiddenChars

\* C8: the names written into the archive are pairwise distinct and
\* generated_new_names is the set of them.
C8_NamesDistinct ==
    /\ \A k, l \in 1..Len(zip_names) : k # l => zip_names[k] # zip_names[l]
    /\ generated_new_names = {zip_names[k] : k \in 1..Len(zip_names)}

\* C8's case: the first candidate of the collision loop, base_1.pdf, is the
\* name the first file of the batch was written under.
C8_Witness ==
    /\ mpc = "dedupe"
    /\ counter = 2
    /\ Len(zip_names) >= 2
    /\ final_new_name = zip_names[1]

====
